---- MODULE Spec2Model ----
(***************************************************************************)
(* Model of the bookkeeping engine of Balance.py: the class AperturaData   *)
(* (control balances, journal "libro_diario", ledger "ledger_accounts")    *)
(* driven by the Streamlit handlers mostrar_*.                             *)
(*                                                                         *)
(* Amounts are integers (centavos).  The inputs are drawn from Montos,     *)
(* multiples of 100, so that valor * 0.16, valor / 2 and (valor / 2) *     *)
(* 0.16 are whole numbers: the arithmetic of the model is the exact        *)
(* arithmetic of the code, without the rounding of Python floats.          *)
(***************************************************************************)
EXTENDS Integers, Sequences, FiniteSets, TLC

\* ------------------------------------------------------------------ bounds
\* Longest journal explored.
MaxAsientos == 3
\* Most non-current assets staged in the opening form.
MaxActivosIniciales == 1
\* Longest journal on which the report pages are explored.
MaxAsientosConsulta == 2

\* iva_rate = 0.16, as a percentage.
IvaRatePct == 16

\* Amounts typed into the number inputs (min_value = 0.0): with zero, for the
\* opening cash, the cash purchase and the cost of goods sold, and without.
Montos == {0, 100}
Importes == {100}
\* Names typed into the text inputs that become account names.
Nombres == {"Equipo", "Caja"}
\* Names of the non-current assets staged in the opening form.
NombresActivos == {"Equipo"}
\* Names and descriptions typed into the text inputs that label an entry or
\* are appended to a fixed prefix.
Descripciones == {"x"}
\* Accumulated-depreciation accounts of the depreciation form (two of them).
DepDepartamento == "Dep. Acum. De Departamento"
DepMuebles == "Dep. Acum. De Muebles"

\* datetime.now().strftime("%d/%m/%Y"): one reading of the clock.
FechaStr == "01/01/2025"

VARIABLES data, ultima, reporte
vars == <<data, ultima, reporte>>

\* ------------------------------------------------------------- arithmetic
\* valor * self.iva_rate
Iva(valor) == (valor * IvaRatePct) \div 100
\* x / 2.0
Mitad(x) == x \div 2

\* sum(valor for _, valor in pares)
RECURSIVE SumaPares(_)
SumaPares(pares) ==
    IF pares = <<>> THEN 0 ELSE pares[1][2] + SumaPares(Tail(pares))

\* --------------------------------------------------------------- __init__
AperturaDataInit ==
    [ apertura_realizada |-> FALSE,
      caja |-> 0,
      inventario |-> 0,
      rentas_anticipadas |-> 0,
      activos_no_circulantes |-> <<>>,
      iva_acreditable |-> 0,
      iva_por_acreditar |-> 0,
      acreedores |-> 0,
      documentos_por_pagar |-> 0,
      anticipo_clientes |-> <<>>,
      total_circulante |-> 0,
      total_no_circulante |-> 0,
      total_activo |-> 0,
      total_pasivo |-> 0,
      capital |-> 0,
      libro_diario |-> <<>>,
      ledger_accounts |-> <<>> ]

\* ---------------------------------------------------------------- journal
\* A line of an entry is <<cuenta, debe, haber>>.
\* ledger_accounts is a dict: here the sequence of its items in insertion
\* order, each [cuenta, movimientos].
TieneCuenta(ledger, cuenta) == \E i \in DOMAIN ledger : ledger[i].cuenta = cuenta

\* Variant of PostLinea: a new account goes to the front of the ledger.
PostLineaAlFrente(ledger, fecha, descripcion, trans_code, linea) ==
    LET mov == [ fecha |-> fecha, descripcion |-> descripcion,
                 trans_code |-> trans_code,
                 debe |-> linea[2], haber |-> linea[3] ]
        base == IF TieneCuenta(ledger, linea[1])
                THEN ledger
                ELSE << [cuenta |-> linea[1], movimientos |-> <<>>] >> \o ledger
    IN  [ i \in DOMAIN base |->
            IF base[i].cuenta = linea[1]
            THEN [base[i] EXCEPT !.movimientos = Append(@, mov)]
            ELSE base[i] ]

\* Variant of PostLinea: the posting replaces the account's list.
PostLineaReemplaza(ledger, fecha, descripcion, trans_code, linea) ==
    LET mov == [ fecha |-> fecha, descripcion |-> descripcion,
                 trans_code |-> trans_code,
                 debe |-> linea[2], haber |-> linea[3] ]
        base == IF TieneCuenta(ledger, linea[1])
                THEN ledger
                ELSE Append(ledger, [cuenta |-> linea[1], movimientos |-> <<>>])
    IN  [ i \in DOMAIN base |->
            IF base[i].cuenta = linea[1]
            THEN [base[i] EXCEPT !.movimientos = <<mov>>]
            ELSE base[i] ]

\* One iteration of the loop of post_to_ledger.
PostLinea(ledger, fecha, descripcion, trans_code, linea) ==
    LET mov == [ fecha |-> fecha, descripcion |-> descripcion,
                 trans_code |-> trans_code,
                 debe |-> linea[2], haber |-> linea[3] ]
        base == IF TieneCuenta(ledger, linea[1])
                THEN ledger
                ELSE Append(ledger, [cuenta |-> linea[1], movimientos |-> <<>>])
    IN  [ i \in DOMAIN base |->
            IF base[i].cuenta = linea[1]
            THEN [base[i] EXCEPT !.movimientos = Append(@, mov)]
            ELSE base[i] ]

RECURSIVE post_to_ledger(_, _, _, _, _)
post_to_ledger(ledger, fecha, descripcion, lineas, trans_code) ==
    IF lineas = <<>> THEN ledger
    ELSE post_to_ledger(PostLinea(ledger, fecha, descripcion, trans_code, Head(lineas)),
                        fecha, descripcion, Tail(lineas), trans_code)

\* Variant of registrar_en_libro_diario: the entry is inserted at the front.
registrar_en_libro_diario_al_frente(d, descripcion, lineas, trans_code) ==
    [ d EXCEPT
        !.libro_diario = << [ fecha |-> FechaStr,
                              descripcion |-> descripcion,
                              lines |-> lineas,
                              code |-> trans_code ] >> \o @,
        !.ledger_accounts = post_to_ledger(@, FechaStr, descripcion, lineas, trans_code) ]

registrar_en_libro_diario(d, descripcion, lineas, trans_code) ==
    [ d EXCEPT
        !.libro_diario = Append(@, [ fecha |-> FechaStr,
                                     descripcion |-> descripcion,
                                     lines |-> lineas,
                                     code |-> trans_code ]),
        !.ledger_accounts = post_to_ledger(@, FechaStr, descripcion, lineas, trans_code) ]

\* ----------------------------------------------------------------- totals
\* Variant of recalcular_totales: iva_por_acreditar is left out of the sum.
recalcular_totales_sin_por_acreditar(d) ==
    LET total_activo_circulante ==
            d.caja + d.inventario + d.rentas_anticipadas + d.iva_acreditable
        total_no_circulante == SumaPares(d.activos_no_circulantes)
        anticipo_total == SumaPares(d.anticipo_clientes)
    IN  [ d EXCEPT
            !.total_circulante = total_activo_circulante,
            !.total_no_circulante = total_no_circulante,
            !.total_activo = total_activo_circulante + total_no_circulante,
            !.total_pasivo = d.acreedores + d.documentos_por_pagar + anticipo_total ]

recalcular_totales(d) ==
    LET total_activo_circulante ==
            d.caja + d.inventario + d.rentas_anticipadas
            + d.iva_acreditable + d.iva_por_acreditar
        total_no_circulante == SumaPares(d.activos_no_circulantes)
        anticipo_total == SumaPares(d.anticipo_clientes)
    IN  [ d EXCEPT
            !.total_circulante = total_activo_circulante,
            !.total_no_circulante = total_no_circulante,
            !.total_activo = total_activo_circulante + total_no_circulante,
            !.total_pasivo = d.acreedores + d.documentos_por_pagar + anticipo_total ]

\* ---------------------------------------------------------------- opening
\* The lines of the opening entry.
LineasApertura(d, total_activo) ==
    (IF d.caja > 0 THEN << <<"Caja", d.caja, 0>> >> ELSE <<>>)
    \o [ i \in DOMAIN d.activos_no_circulantes |->
           << d.activos_no_circulantes[i][1], d.activos_no_circulantes[i][2], 0 >> ]
    \o << <<"Capital (Apertura)", 0, total_activo>> >>

\* Variant of calcular_asiento_apertura: capital counts the cash only.
calcular_asiento_apertura_solo_caja(d) ==
    LET total_activo == d.caja
        d1 == [ d EXCEPT !.total_activo = total_activo,
                         !.capital = total_activo,
                         !.total_pasivo = 0,
                         !.apertura_realizada = TRUE ]
    IN  recalcular_totales(
            registrar_en_libro_diario(d1, "Asiento de Apertura",
                                      LineasApertura(d1, total_activo), "A"))

calcular_asiento_apertura(d) ==
    LET total_activo == d.caja + SumaPares(d.activos_no_circulantes)
        d1 == [ d EXCEPT !.total_activo = total_activo,
                         !.capital = total_activo,
                         !.total_pasivo = 0,
                         !.apertura_realizada = TRUE ]
    IN  recalcular_totales(
            registrar_en_libro_diario(d1, "Asiento de Apertura",
                                      LineasApertura(d1, total_activo), "A"))

\* ------------------------------------------------- outcome of a method call
\* A method either returns, leaving the object as d, or raises ValueError
\* before any assignment.
Ok(d) == [err |-> FALSE, data |-> d]
Raise(d) == [err |-> TRUE, data |-> d]

\* ------------------------------------------------------------- operations
\* Variant of compra_en_efectivo: cash pays the value without the tax.
compra_en_efectivo_sin_iva(d, nombre, valor) ==
    IF ~d.apertura_realizada THEN Raise(d)
    ELSE LET iva == Iva(valor)
             d1 == recalcular_totales(
                     [ d EXCEPT !.inventario = @ + valor,
                                !.iva_acreditable = @ + iva,
                                !.caja = @ - valor ])
             lineas == << <<"Inventario", valor, 0>>,
                          <<"IVA Acreditable", iva, 0>>,
                          <<"Caja", 0, valor + iva>> >>
         IN  Ok(registrar_en_libro_diario(d1, "Compra en Efectivo - " \o nombre,
                                          lineas, "1"))

compra_en_efectivo(d, nombre, valor) ==
    IF ~d.apertura_realizada THEN Raise(d)
    ELSE LET iva == Iva(valor)
             d1 == recalcular_totales(
                     [ d EXCEPT !.inventario = @ + valor,
                                !.iva_acreditable = @ + iva,
                                !.caja = @ - (valor + iva) ])
             lineas == << <<"Inventario", valor, 0>>,
                          <<"IVA Acreditable", iva, 0>>,
                          <<"Caja", 0, valor + iva>> >>
         IN  Ok(registrar_en_libro_diario(d1, "Compra en Efectivo - " \o nombre,
                                          lineas, "1"))

\* Variant of compra_a_credito: the tax goes to the first input-tax bucket.
compra_a_credito_iva_acreditable(d, nombre, valor) ==
    IF ~d.apertura_realizada THEN Raise(d)
    ELSE LET iva == Iva(valor)
             d1 == recalcular_totales(
                     [ d EXCEPT !.activos_no_circulantes = Append(@, <<nombre, valor>>),
                                !.iva_acreditable = @ + iva,
                                !.acreedores = @ + (valor + iva) ])
             lineas == << <<nombre, valor, 0>>,
                          <<"IVA por Acreditar", iva, 0>>,
                          <<"Acreedores", 0, valor + iva>> >>
         IN  Ok(registrar_en_libro_diario(d1, "Compra a Crédito - " \o nombre,
                                          lineas, "2"))

compra_a_credito(d, nombre, valor) ==
    IF ~d.apertura_realizada THEN Raise(d)
    ELSE LET iva == Iva(valor)
             d1 == recalcular_totales(
                     [ d EXCEPT !.activos_no_circulantes = Append(@, <<nombre, valor>>),
                                !.iva_por_acreditar = @ + iva,
                                !.acreedores = @ + (valor + iva) ])
             lineas == << <<nombre, valor, 0>>,
                          <<"IVA por Acreditar", iva, 0>>,
                          <<"Acreedores", 0, valor + iva>> >>
         IN  Ok(registrar_en_libro_diario(d1, "Compra a Crédito - " \o nombre,
                                          lineas, "2"))

\* Variant of compra_combinada: the asset is recorded for half its value.
compra_combinada_media(d, nombre, valor) ==
    IF ~d.apertura_realizada THEN Raise(d)
    ELSE LET iva_total == Iva(valor)
             mitad_valor == Mitad(valor)
             mitad_iva == Mitad(iva_total)
             d1 == recalcular_totales(
                     [ d EXCEPT !.activos_no_circulantes = Append(@, <<nombre, mitad_valor>>),
                                !.caja = @ - (mitad_valor + mitad_iva),
                                !.iva_acreditable = @ + mitad_iva,
                                !.documentos_por_pagar = @ + (mitad_valor + mitad_iva),
                                !.iva_por_acreditar = @ + mitad_iva ])
             lineas == << <<nombre, valor, 0>>,
                          <<"IVA Acreditable", mitad_iva, 0>>,
                          <<"IVA por Acreditar", mitad_iva, 0>>,
                          <<"Caja", 0, mitad_valor + mitad_iva>>,
                          <<"Documentos por Pagar", 0, mitad_valor + mitad_iva>> >>
         IN  Ok(registrar_en_libro_diario(d1, "Compra Combinada - " \o nombre,
                                          lineas, "3"))

compra_combinada(d, nombre, valor) ==
    IF ~d.apertura_realizada THEN Raise(d)
    ELSE LET iva_total == Iva(valor)
             mitad_valor == Mitad(valor)
             mitad_iva == Mitad(iva_total)
             d1 == recalcular_totales(
                     [ d EXCEPT !.activos_no_circulantes = Append(@, <<nombre, valor>>),
                                !.caja = @ - (mitad_valor + mitad_iva),
                                !.iva_acreditable = @ + mitad_iva,
                                !.documentos_por_pagar = @ + (mitad_valor + mitad_iva),
                                !.iva_por_acreditar = @ + mitad_iva ])
             lineas == << <<nombre, valor, 0>>,
                          <<"IVA Acreditable", mitad_iva, 0>>,
                          <<"IVA por Acreditar", mitad_iva, 0>>,
                          <<"Caja", 0, mitad_valor + mitad_iva>>,
                          <<"Documentos por Pagar", 0, mitad_valor + mitad_iva>> >>
         IN  Ok(registrar_en_libro_diario(d1, "Compra Combinada - " \o nombre,
                                          lineas, "3"))

\* Variant of pago_rentas_op: the prepaid-rent balance is not increased.
pago_rentas_op_sin_cargo(d, nombre, valor) ==
    IF ~d.apertura_realizada THEN Raise(d)
    ELSE LET iva_renta == Iva(valor)
             d1 == recalcular_totales(
                     [ d EXCEPT !.iva_acreditable = @ + iva_renta,
                                !.caja = @ - (valor + iva_renta) ])
             lineas == << <<"Rentas Pagadas Anticipado", valor, 0>>,
                          <<"IVA Acreditable", iva_renta, 0>>,
                          <<"Caja", 0, valor + iva_renta>> >>
         IN  Ok(registrar_en_libro_diario(d1, "Pago Rentas - " \o nombre,
                                          lineas, "4"))

pago_rentas_op(d, nombre, valor) ==
    IF ~d.apertura_realizada THEN Raise(d)
    ELSE LET iva_renta == Iva(valor)
             d1 == recalcular_totales(
                     [ d EXCEPT !.rentas_anticipadas = @ + valor,
                                !.iva_acreditable = @ + iva_renta,
                                !.caja = @ - (valor + iva_renta) ])
             lineas == << <<"Rentas Pagadas Anticipado", valor, 0>>,
                          <<"IVA Acreditable", iva_renta, 0>>,
                          <<"Caja", 0, valor + iva_renta>> >>
         IN  Ok(registrar_en_libro_diario(d1, "Pago Rentas - " \o nombre,
                                          lineas, "4"))

\* Variant of compra_papeleria_op: the supplies are not kept as an asset.
compra_papeleria_op_sin_activo(d, nombre, valor) ==
    IF ~d.apertura_realizada THEN Raise(d)
    ELSE LET iva == Iva(valor)
             d1 == recalcular_totales(
                     [ d EXCEPT !.iva_acreditable = @ + iva,
                                !.caja = @ - (valor + iva) ])
             lineas == << <<"Papelería - " \o nombre, valor, 0>>,
                          <<"IVA Acreditable", iva, 0>>,
                          <<"Caja", 0, valor + iva>> >>
         IN  Ok(registrar_en_libro_diario(d1, "Compra Papelería - " \o nombre,
                                          lineas, "5"))

compra_papeleria_op(d, nombre, valor) ==
    IF ~d.apertura_realizada THEN Raise(d)
    ELSE LET iva == Iva(valor)
             d1 == recalcular_totales(
                     [ d EXCEPT !.activos_no_circulantes =
                                    Append(@, <<"Papelería - " \o nombre, valor>>),
                                !.iva_acreditable = @ + iva,
                                !.caja = @ - (valor + iva) ])
             lineas == << <<"Papelería - " \o nombre, valor, 0>>,
                          <<"IVA Acreditable", iva, 0>>,
                          <<"Caja", 0, valor + iva>> >>
         IN  Ok(registrar_en_libro_diario(d1, "Compra Papelería - " \o nombre,
                                          lineas, "5"))

\* Variant of anticipo_clientes_op: only the principal is kept in the list.
anticipo_clientes_op_sin_iva(d, nombre, venta) ==
    IF ~d.apertura_realizada THEN Raise(d)
    ELSE LET half_sale == Mitad(venta)
             half_iva == Iva(half_sale)
             d1 == recalcular_totales(
                     [ d EXCEPT !.caja = @ + (half_sale + half_iva),
                                !.anticipo_clientes =
                                    Append(@, <<"Anticipo de Clientes - " \o nombre,
                                                half_sale>>) ])
             lineas == << <<"Caja", half_sale + half_iva, 0>>,
                          <<"Anticipo de Clientes - " \o nombre, 0, half_sale>>,
                          <<"IVA Trasladado - " \o nombre, 0, half_iva>> >>
         IN  Ok(registrar_en_libro_diario(d1, "Anticipo de Clientes - " \o nombre,
                                          lineas, "6"))

anticipo_clientes_op(d, nombre, venta) ==
    IF ~d.apertura_realizada THEN Raise(d)
    ELSE LET half_sale == Mitad(venta)
             half_iva == Iva(half_sale)
             d1 == recalcular_totales(
                     [ d EXCEPT !.caja = @ + (half_sale + half_iva),
                                !.anticipo_clientes =
                                    Append(Append(@, <<"Anticipo de Clientes - " \o nombre,
                                                       half_sale>>),
                                           <<"IVA Trasladado - " \o nombre, half_iva>>) ])
             lineas == << <<"Caja", half_sale + half_iva, 0>>,
                          <<"Anticipo de Clientes - " \o nombre, 0, half_sale>>,
                          <<"IVA Trasladado - " \o nombre, 0, half_iva>> >>
         IN  Ok(registrar_en_libro_diario(d1, "Anticipo de Clientes - " \o nombre,
                                          lineas, "6"))

\* Variant of registrar_venta: the sale also takes its amount off the inventory.
registrar_venta_descarga(d, descripcion, monto) ==
    IF ~d.apertura_realizada THEN Raise(d)
    ELSE LET iva_venta == Iva(monto)
             d1 == recalcular_totales([ d EXCEPT !.caja = @ + (monto + iva_venta),
                                                 !.inventario = @ - monto ])
             lineas == << <<"Caja", monto + iva_venta, 0>>,
                          <<"Ventas", 0, monto>>,
                          <<"IVA Trasladado", 0, iva_venta>> >>
         IN  Ok(registrar_en_libro_diario(d1, "Venta - " \o descripcion, lineas, "V"))

registrar_venta(d, descripcion, monto) ==
    IF ~d.apertura_realizada THEN Raise(d)
    ELSE LET iva_venta == Iva(monto)
             d1 == recalcular_totales([ d EXCEPT !.caja = @ + (monto + iva_venta) ])
             lineas == << <<"Caja", monto + iva_venta, 0>>,
                          <<"Ventas", 0, monto>>,
                          <<"IVA Trasladado", 0, iva_venta>> >>
         IN  Ok(registrar_en_libro_diario(d1, "Venta - " \o descripcion, lineas, "V"))

\* Variant of registrar_costo_vendido: the cost is checked against the cash.
registrar_costo_vendido_contra_caja(d, descripcion, costo) ==
    IF ~d.apertura_realizada THEN Raise(d)
    ELSE IF costo > d.caja THEN Raise(d)
    ELSE LET d1 == recalcular_totales([ d EXCEPT !.inventario = @ - costo ])
             lineas == << <<"Costo de lo Vendido", costo, 0>>,
                          <<"Inventario", 0, costo>> >>
         IN  Ok(registrar_en_libro_diario(d1, "Costo de lo Vendido - " \o descripcion,
                                          lineas, "CV"))

\* Variant of registrar_costo_vendido: the inventory is not checked.
registrar_costo_vendido_sin_existencias(d, descripcion, costo) ==
    IF ~d.apertura_realizada THEN Raise(d)
    ELSE LET d1 == recalcular_totales([ d EXCEPT !.inventario = @ - costo ])
             lineas == << <<"Costo de lo Vendido", costo, 0>>,
                          <<"Inventario", 0, costo>> >>
         IN  Ok(registrar_en_libro_diario(d1, "Costo de lo Vendido - " \o descripcion,
                                          lineas, "CV"))

registrar_costo_vendido(d, descripcion, costo) ==
    IF ~d.apertura_realizada THEN Raise(d)
    ELSE IF costo > d.inventario THEN Raise(d)
    ELSE LET d1 == recalcular_totales([ d EXCEPT !.inventario = @ - costo ])
             lineas == << <<"Costo de lo Vendido", costo, 0>>,
                          <<"Inventario", 0, costo>> >>
         IN  Ok(registrar_en_libro_diario(d1, "Costo de lo Vendido - " \o descripcion,
                                          lineas, "CV"))

\* Variant of registrar_gastos_generales: an expense above the cash is refused.
registrar_gastos_generales_con_saldo(d, descripcion, monto) ==
    IF ~d.apertura_realizada THEN Raise(d)
    ELSE IF monto > d.caja THEN Raise(d)
    ELSE LET d1 == recalcular_totales([ d EXCEPT !.caja = @ - monto ])
             lineas == << <<"Gastos Generales", monto, 0>>,
                          <<"Caja", 0, monto>> >>
         IN  Ok(registrar_en_libro_diario(d1, "Gastos Generales - " \o descripcion,
                                          lineas, "G"))

registrar_gastos_generales(d, descripcion, monto) ==
    IF ~d.apertura_realizada THEN Raise(d)
    ELSE LET d1 == recalcular_totales([ d EXCEPT !.caja = @ - monto ])
             lineas == << <<"Gastos Generales", monto, 0>>,
                          <<"Caja", 0, monto>> >>
         IN  Ok(registrar_en_libro_diario(d1, "Gastos Generales - " \o descripcion,
                                          lineas, "G"))

\* Variant of anular_anticipo_cliente: the recorded advances are cleared.
anular_anticipo_cliente_liquida(d, descripcion, monto) ==
    IF ~d.apertura_realizada THEN Raise(d)
    ELSE LET iva_venta == Iva(monto)
             d1 == recalcular_totales([ d EXCEPT !.caja = @ + (monto + iva_venta),
                                                 !.anticipo_clientes = <<>> ])
             lineas == << <<"Caja", monto + iva_venta, 0>>,
                          <<"Anticipo de Clientes", monto, 0>>,
                          <<"IVA Trasladado", 0, iva_venta>>,
                          <<"Ventas", 0, monto>> >>
         IN  Ok(registrar_en_libro_diario(d1, "Anular anticipo - " \o descripcion,
                                          lineas, "AA"))

anular_anticipo_cliente(d, descripcion, monto) ==
    IF ~d.apertura_realizada THEN Raise(d)
    ELSE LET iva_venta == Iva(monto)
             d1 == recalcular_totales([ d EXCEPT !.caja = @ + (monto + iva_venta) ])
             lineas == << <<"Caja", monto + iva_venta, 0>>,
                          <<"Anticipo de Clientes", monto, 0>>,
                          <<"IVA Trasladado", 0, iva_venta>>,
                          <<"Ventas", 0, monto>> >>
         IN  Ok(registrar_en_libro_diario(d1, "Anular anticipo - " \o descripcion,
                                          lineas, "AA"))

\* Variant of registrar_depreciacion: one credit line for the whole amount.
registrar_depreciacion_un_abono(d, descripcion, dict_depreciaciones) ==
    IF ~d.apertura_realizada THEN Raise(d)
    ELSE LET total_dep == SumaPares(dict_depreciaciones)
             lineas == << <<"Gastos Generales", total_dep, 0>>,
                          << dict_depreciaciones[1][1], 0, total_dep >> >>
         IN  Ok(recalcular_totales(
                  registrar_en_libro_diario(d, "Depreciaciones - " \o descripcion,
                                            lineas, "DEP")))

\* Variant of registrar_depreciacion: the opening is not required.
registrar_depreciacion_sin_guarda(d, descripcion, dict_depreciaciones) ==
    LET total_dep == SumaPares(dict_depreciaciones)
        lineas == << <<"Gastos Generales", total_dep, 0>> >>
                  \o [ i \in DOMAIN dict_depreciaciones |->
                         << dict_depreciaciones[i][1], 0, dict_depreciaciones[i][2] >> ]
    IN  Ok(recalcular_totales(
             registrar_en_libro_diario(d, "Depreciaciones - " \o descripcion,
                                       lineas, "DEP")))

\* dict_depreciaciones is a dict: here the sequence of its items <<cuenta, valor>>.
registrar_depreciacion(d, descripcion, dict_depreciaciones) ==
    IF ~d.apertura_realizada THEN Raise(d)
    ELSE LET total_dep == SumaPares(dict_depreciaciones)
             lineas == << <<"Gastos Generales", total_dep, 0>> >>
                       \o [ i \in DOMAIN dict_depreciaciones |->
                              << dict_depreciaciones[i][1], 0, dict_depreciaciones[i][2] >> ]
         IN  Ok(recalcular_totales(
                  registrar_en_libro_diario(d, "Depreciaciones - " \o descripcion,
                                            lineas, "DEP")))

\* ---------------------------------------------------------------- reports
\* The reports return text; the model keeps the numbers they print.

\* sum(...) over a sequence of numbers.
RECURSIVE Suma(_)
Suma(xs) == IF xs = <<>> THEN 0 ELSE Head(xs) + Suma(Tail(xs))

\* sum(m["debe"] for m in movimientos), sum(m["haber"] for m in movimientos)
TotalDebe(movimientos) == Suma([i \in DOMAIN movimientos |-> movimientos[i].debe])
TotalHaber(movimientos) == Suma([i \in DOMAIN movimientos |-> movimientos[i].haber])

\* One account of generar_tabla_mayor: its totals and its SALDO.
FilaMayor(item) ==
    LET total_debe == TotalDebe(item.movimientos)
        total_haber == TotalHaber(item.movimientos)
    IN  [ cuenta |-> item.cuenta, movimientos |-> item.movimientos,
          total_debe |-> total_debe, total_haber |-> total_haber,
          saldo |-> total_debe - total_haber ]

generar_tabla_mayor(d) ==
    [ i \in DOMAIN d.ledger_accounts |-> FilaMayor(d.ledger_accounts[i]) ]

\* Variant of FilaBalanza: the signed difference goes to the debit column.
FilaBalanzaConSigno(item) ==
    LET total_debe == TotalDebe(item.movimientos)
        total_haber == TotalHaber(item.movimientos)
    IN  [ cuenta |-> item.cuenta,
          total_debe |-> total_debe, total_haber |-> total_haber,
          diff_debe |-> total_debe - total_haber,
          diff_haber |-> 0 ]

\* Variant of FilaBalanza: the debit difference is the whole debit total.
FilaBalanzaSinResta(item) ==
    LET total_debe == TotalDebe(item.movimientos)
        total_haber == TotalHaber(item.movimientos)
    IN  [ cuenta |-> item.cuenta,
          total_debe |-> total_debe, total_haber |-> total_haber,
          diff_debe |-> IF total_debe > total_haber THEN total_debe ELSE 0,
          diff_haber |-> IF total_debe > total_haber THEN 0 ELSE total_haber - total_debe ]

\* One row of generar_balanza_comprobacion.
FilaBalanza(item) ==
    LET total_debe == TotalDebe(item.movimientos)
        total_haber == TotalHaber(item.movimientos)
    IN  [ cuenta |-> item.cuenta,
          total_debe |-> total_debe, total_haber |-> total_haber,
          diff_debe |-> IF total_debe > total_haber THEN total_debe - total_haber ELSE 0,
          diff_haber |-> IF total_debe > total_haber THEN 0 ELSE total_haber - total_debe ]

\* The rows of the trial balance and its four grand totals (all zero, no
\* rows, for the message returned on an empty ledger).
generar_balanza_comprobacion(d) ==
    LET filas == [ i \in DOMAIN d.ledger_accounts |-> FilaBalanza(d.ledger_accounts[i]) ]
    IN  [ filas |-> filas,
          sum_debe1 |-> Suma([i \in DOMAIN filas |-> filas[i].total_debe]),
          sum_haber1 |-> Suma([i \in DOMAIN filas |-> filas[i].total_haber]),
          sum_debe2 |-> Suma([i \in DOMAIN filas |-> filas[i].diff_debe]),
          sum_haber2 |-> Suma([i \in DOMAIN filas |-> filas[i].diff_haber]) ]

\* generar_libro_diario: the entries in order and the grand totals of all
\* debits and credits, or the message returned on an empty journal.
generar_libro_diario(d) ==
    IF d.libro_diario = <<>>
    THEN [ mensaje |-> "Debes iniciar tu asiento de apertura para ver tu libro diario.",
           asientos |-> <<>>, total_debe |-> 0, total_haber |-> 0 ]
    ELSE [ mensaje |-> "",
           asientos |-> d.libro_diario,
           total_debe |-> Suma([ i \in DOMAIN d.libro_diario |->
                                   Suma([ j \in DOMAIN d.libro_diario[i].lines |->
                                            d.libro_diario[i].lines[j][2] ]) ]),
           total_haber |-> Suma([ i \in DOMAIN d.libro_diario |->
                                    Suma([ j \in DOMAIN d.libro_diario[i].lines |->
                                             d.libro_diario[i].lines[j][3] ]) ]) ]

\* generar_tabla_balance: the figures of the balance sheet.
generar_tabla_balance(d) ==
    LET anticipo_total == SumaPares(d.anticipo_clientes)
        total_no_circulante == SumaPares(d.activos_no_circulantes)
    IN  [ caja |-> d.caja,
          inventario |-> d.inventario,
          iva_acreditable |-> d.iva_acreditable,
          iva_por_acreditar |-> d.iva_por_acreditar,
          rentas_anticipadas |-> d.rentas_anticipadas,
          total_circulante |-> d.total_circulante,
          activos_no_circulantes |-> d.activos_no_circulantes,
          total_no_circulante |-> total_no_circulante,
          acreedores |-> d.acreedores,
          documentos_por_pagar |-> d.documentos_por_pagar,
          anticipo_clientes |-> d.anticipo_clientes,
          total_activo |-> d.total_activo,
          total_pasivo |-> d.total_pasivo,
          capital |-> d.capital,
          pasivo_mas_capital |-> d.total_pasivo + d.capital ]

\* sub in cuenta, for the substrings the reports look for and the account
\* names the inputs of the model can produce: a fixed name contains itself,
\* "Anticipo de Clientes - x" contains "Clientes", and no name built from
\* Nombres, NombresActivos or Descripciones contains any of them otherwise.
Contiene(cuenta, sub) ==
    \/ cuenta = sub
    \/ sub = "Dep. Acum." /\ cuenta \in {DepDepartamento, DepMuebles}
    \/ sub = "Clientes"
         /\ cuenta \in {"Anticipo de Clientes"}
                       \cup { "Anticipo de Clientes - " \o n : n \in Descripciones }

\* Sum of f over the postings of the accounts whose name contains sub.
RECURSIVE SumaCuentasCon(_, _, _)
SumaCuentasCon(ledger, sub, campo) ==
    IF ledger = <<>> THEN 0
    ELSE (IF Contiene(Head(ledger).cuenta, sub)
          THEN (IF campo = "debe" THEN TotalDebe(Head(ledger).movimientos)
                                  ELSE TotalHaber(Head(ledger).movimientos))
          ELSE 0)
         + SumaCuentasCon(Tail(ledger), sub, campo)

\* generar_balance_general: the income summary.
generar_balance_general(d) ==
    IF d.ledger_accounts = <<>>
    THEN [ mensaje |-> "No hay datos para generar Balance General.",
           total_ventas |-> 0, total_costo |-> 0, utilidad_bruta |-> 0,
           total_gastos |-> 0, utilidad_neta |-> 0 ]
    ELSE LET total_ventas == SumaCuentasCon(d.ledger_accounts, "Ventas", "haber")
             total_costo == SumaCuentasCon(d.ledger_accounts, "Costo de lo Vendido", "haber")
             total_gastos == SumaCuentasCon(d.ledger_accounts, "Gastos Generales", "debe")
             utilidad_bruta == total_ventas - total_costo
         IN  [ mensaje |-> "",
               total_ventas |-> total_ventas, total_costo |-> total_costo,
               utilidad_bruta |-> utilidad_bruta, total_gastos |-> total_gastos,
               utilidad_neta |-> utilidad_bruta - total_gastos ]

\* A report returns its text, or the call raises.
Devuelve(texto) == [err |-> FALSE, texto |-> texto]
Lanza(excepcion) == [err |-> TRUE, texto |-> excepcion]

\* generar_estado_flujos_efectivo: its first statement calls
\* self.calcular_utilidad(), a method the class does not define, so the call
\* raises AttributeError before anything is computed.
generar_estado_flujos_efectivo(d) ==
    Lanza("AttributeError: 'AperturaData' object has no attribute 'calcular_utilidad'")

\* ------------------------------------------------------------ the handlers
\* The journal is explored up to MaxAsientos entries.
Cabe == Len(data.libro_diario) < MaxAsientos

\* What st.code shows on the page: nothing, or the text of a report.
SinReporte == [tipo |-> "", texto |-> <<>>]
\* st.code(data.generar_tabla_balance()), shown after a successful operation.
Balance(d) == [tipo |-> "generar_tabla_balance", texto |-> generar_tabla_balance(d)]

\* try: data.<op>(...); st.success(...)  except ValueError: st.warning(...)
Invocar(op, nombre, valor, deps, r) ==
    /\ r.err \/ Cabe
    /\ data' = r.data
    /\ ultima' = [ op |-> op, nombre |-> nombre, valor |-> valor, deps |-> deps,
                   resultado |-> IF r.err THEN "error" ELSE "ok" ]
    /\ reporte' = IF r.err THEN SinReporte ELSE Balance(r.data)


mostrar_compra_efectivo ==
    \E nombre \in Descripciones, valor \in Montos :
         Invocar("compra_en_efectivo", nombre, valor, <<>>,
                 compra_en_efectivo(data, nombre, valor))

mostrar_compra_credito ==
    \E nombre \in Nombres, valor \in Importes :
         Invocar("compra_a_credito", nombre, valor, <<>>,
                 compra_a_credito(data, nombre, valor))

mostrar_compra_combinada ==
    \E nombre \in Nombres, valor \in Importes :
         Invocar("compra_combinada", nombre, valor, <<>>,
                 compra_combinada(data, nombre, valor))

mostrar_pago_rentas ==
    \E nombre \in Descripciones, valor \in Importes :
         Invocar("pago_rentas_op", nombre, valor, <<>>,
                 pago_rentas_op(data, nombre, valor))

mostrar_compra_papeleria ==
    \E nombre \in Descripciones, valor \in Importes :
         Invocar("compra_papeleria_op", nombre, valor, <<>>,
                 compra_papeleria_op(data, nombre, valor))

mostrar_anticipo_clientes ==
    \E nombre \in Descripciones, venta \in Importes :
         Invocar("anticipo_clientes_op", nombre, venta, <<>>,
                 anticipo_clientes_op(data, nombre, venta))

mostrar_venta ==
    \E descripcion \in Descripciones, monto \in Importes :
         Invocar("registrar_venta", descripcion, monto, <<>>,
                 registrar_venta(data, descripcion, monto))

mostrar_costo_vendido ==
    \E descripcion \in Descripciones, costo \in Montos :
         Invocar("registrar_costo_vendido", descripcion, costo, <<>>,
                 registrar_costo_vendido(data, descripcion, costo))

mostrar_gastos_generales ==
    \E descripcion \in Descripciones, monto \in Importes :
         Invocar("registrar_gastos_generales", descripcion, monto, <<>>,
                 registrar_gastos_generales(data, descripcion, monto))

mostrar_anular_anticipo ==
    \E descripcion \in Descripciones, monto \in Importes :
         Invocar("anular_anticipo_cliente", descripcion, monto, <<>>,
                 anular_anticipo_cliente(data, descripcion, monto))

\* dict_deps as the form builds it: the accounts with an amount > 0, in the
\* order of the form.
DictDeps(dep_departamento, dep_muebles) ==
    (IF dep_departamento > 0 THEN << <<DepDepartamento, dep_departamento>> >> ELSE <<>>)
    \o (IF dep_muebles > 0 THEN << <<DepMuebles, dep_muebles>> >> ELSE <<>>)

\* With no amount at all the form shows st.info and calls nothing: no step.
mostrar_depreciaciones ==
    \E descripcion \in Descripciones, dep_departamento \in Montos, dep_muebles \in Montos :
      LET dict_deps == DictDeps(dep_departamento, dep_muebles)
      IN  /\ dict_deps # <<>>
          /\ Invocar("registrar_depreciacion", descripcion, 0, dict_deps,
                     registrar_depreciacion(data, descripcion, dict_deps))

\* The opening form.  Once the opening is done it only shows the balance:
\* "if data.apertura_realizada: st.info(...); return" is YaRealizada.
\* Variant of YaRealizada: the form never refuses.
YaRealizadaSinGuarda(d) == FALSE

YaRealizada(d) == d.apertura_realizada

apertura_ya_realizada ==
    /\ YaRealizada(data)
    /\ data' = data
    /\ ultima' = [ op |-> "calcular_asiento_apertura", nombre |-> "", valor |-> 0,
                   deps |-> <<>>, resultado |-> "info" ]
    /\ reporte' = Balance(data)

\* Button "Actualizar Caja".
actualizar_caja ==
    /\ ~YaRealizada(data)
    /\ \E nuevo_monto \in Montos :
         /\ data' = [data EXCEPT !.caja = nuevo_monto]
         /\ ultima' = [ op |-> "actualizar_caja", nombre |-> "", valor |-> nuevo_monto,
                        deps |-> <<>>, resultado |-> "ok" ]
         /\ reporte' = SinReporte

\* Button "Agregar Activo No Circulante", with a name that is not blank.
agregar_activo ==
    /\ ~YaRealizada(data)
    /\ Len(data.activos_no_circulantes) < MaxActivosIniciales
    /\ \E nombre_activo \in NombresActivos, valor_activo \in Importes :
         /\ data' = [data EXCEPT !.activos_no_circulantes =
                                    Append(@, <<nombre_activo, valor_activo>>)]
         /\ ultima' = [ op |-> "agregar_activo", nombre |-> nombre_activo,
                        valor |-> valor_activo, deps |-> <<>>, resultado |-> "ok" ]
         /\ reporte' = SinReporte

\* The same button with a blank name: a warning, nothing appended.
agregar_activo_sin_nombre ==
    /\ ~YaRealizada(data)
    /\ \E valor_activo \in Importes :
         /\ data' = data
         /\ ultima' = [ op |-> "agregar_activo", nombre |-> "", valor |-> valor_activo,
                        deps |-> <<>>, resultado |-> "error" ]
         /\ reporte' = SinReporte

\* Button "Finalizar Asiento de Apertura".
finalizar_asiento_apertura ==
    /\ ~YaRealizada(data)
    /\ Cabe
    /\ data' = calcular_asiento_apertura(data)
    /\ ultima' = [ op |-> "calcular_asiento_apertura", nombre |-> "", valor |-> 0,
                   deps |-> <<>>, resultado |-> "ok" ]
    /\ reporte' = Balance(data')

\* The report pages of main: st.code(data.generar_...()), outside any try.
\* Variant of Consultar: the report recomputes the totals in place.
ConsultarRecalculando(op, r) ==
    /\ Len(data.libro_diario) <= MaxAsientosConsulta
    /\ data' = recalcular_totales(data)
    /\ ultima' = [ op |-> op, nombre |-> "", valor |-> 0, deps |-> <<>>,
                   resultado |-> IF r.err THEN "excepcion" ELSE "ok" ]
    /\ reporte' = IF r.err THEN SinReporte ELSE [tipo |-> op, texto |-> r.texto]

Consultar(op, r) ==
    /\ Len(data.libro_diario) <= MaxAsientosConsulta
    /\ data' = data
    /\ ultima' = [ op |-> op, nombre |-> "", valor |-> 0, deps |-> <<>>,
                   resultado |-> IF r.err THEN "excepcion" ELSE "ok" ]
    /\ reporte' = IF r.err THEN SinReporte ELSE [tipo |-> op, texto |-> r.texto]

mostrar_balance ==
    Consultar("generar_tabla_balance", Devuelve(generar_tabla_balance(data)))

mostrar_libro_diario ==
    Consultar("generar_libro_diario", Devuelve(generar_libro_diario(data)))

mostrar_tablas_de_mayor ==
    Consultar("generar_tabla_mayor", Devuelve(generar_tabla_mayor(data)))

mostrar_balanza_comprobacion ==
    Consultar("generar_balanza_comprobacion",
              Devuelve(generar_balanza_comprobacion(data)))

mostrar_balance_general ==
    Consultar("generar_balance_general", Devuelve(generar_balance_general(data)))

mostrar_estado_flujos ==
    Consultar("generar_estado_flujos_efectivo", generar_estado_flujos_efectivo(data))

Init ==
    /\ data = AperturaDataInit
    /\ ultima = [ op |-> "init", nombre |-> "", valor |-> 0, deps |-> <<>>,
                  resultado |-> "ok" ]
    /\ reporte = SinReporte

Next ==
    \/ apertura_ya_realizada
    \/ actualizar_caja
    \/ agregar_activo
    \/ agregar_activo_sin_nombre
    \/ finalizar_asiento_apertura
    \/ mostrar_compra_efectivo
    \/ mostrar_compra_credito
    \/ mostrar_compra_combinada
    \/ mostrar_pago_rentas
    \/ mostrar_compra_papeleria
    \/ mostrar_anticipo_clientes
    \/ mostrar_venta
    \/ mostrar_costo_vendido
    \/ mostrar_gastos_generales
    \/ mostrar_anular_anticipo
    \/ mostrar_depreciaciones
    \/ mostrar_balance
    \/ mostrar_libro_diario
    \/ mostrar_tablas_de_mayor
    \/ mostrar_balanza_comprobacion
    \/ mostrar_balance_general
    \/ mostrar_estado_flujos

Spec == Init /\ [][Next]_vars

\* ------------------------------------------------------------ properties
\* Debit and credit sums of the lines of one entry.
DebeAsiento(asiento) == Suma([i \in DOMAIN asiento.lines |-> asiento.lines[i][2]])
HaberAsiento(asiento) == Suma([i \in DOMAIN asiento.lines |-> asiento.lines[i][3]])
Balanceado(asiento) == DebeAsiento(asiento) = HaberAsiento(asiento)

\* The engine methods of the spec's list of mutating operations other than
\* the opening, by the name recorded in ultima.op.
OperacionesNoApertura ==
    { "compra_en_efectivo", "compra_a_credito", "compra_combinada", "pago_rentas_op",
      "compra_papeleria_op", "anticipo_clientes_op", "registrar_venta",
      "registrar_costo_vendido", "registrar_gastos_generales",
      "anular_anticipo_cliente", "registrar_depreciacion" }
OperacionesMutantes == OperacionesNoApertura \cup {"calcular_asiento_apertura"}

\* C1: every entry of the journal has the sum of its debits equal to the sum
\* of its credits.  (Refuted: the entry of anular_anticipo_cliente debits
\* monto + iva and monto, and credits iva and monto.)
C1_AsientosBalanceados ==
    \A i \in DOMAIN data.libro_diario : Balanceado(data.libro_diario[i])

\* C2: when every entry of the journal is balanced, the trial balance's grand
\* total of the debit-difference column equals that of the credit-difference
\* column.
C2_BalanzaCuadra ==
    (\A i \in DOMAIN data.libro_diario : Balanceado(data.libro_diario[i]))
    => LET b == generar_balanza_comprobacion(data)
       IN  b.sum_debe2 = b.sum_haber2

\* C2 witness: a journal of several balanced entries whose trial balance has
\* a positive difference total over at least three accounts.
C2_Witness ==
    /\ Len(data.libro_diario) >= 3
    /\ \A i \in DOMAIN data.libro_diario : Balanceado(data.libro_diario[i])
    /\ Len(data.ledger_accounts) >= 3
    /\ generar_balanza_comprobacion(data).sum_debe2 > 0

\* Every balance the opening form does not stage is zero, every total is
\* zero, and the advance list, the journal and the ledger are empty.
SinMovimientos(d) ==
    /\ d.inventario = 0 /\ d.rentas_anticipadas = 0
    /\ d.iva_acreditable = 0 /\ d.iva_por_acreditar = 0
    /\ d.acreedores = 0 /\ d.documentos_por_pagar = 0
    /\ d.anticipo_clientes = <<>>
    /\ d.total_circulante = 0 /\ d.total_no_circulante = 0
    /\ d.total_activo = 0 /\ d.total_pasivo = 0 /\ d.capital = 0
    /\ d.libro_diario = <<>> /\ d.ledger_accounts = <<>>

NumAperturas(libro) == Cardinality({ i \in DOMAIN libro : libro[i].code = "A" })

\* C4: the opening is single-fire: on an opened engine it is refused and
\* changes nothing, the journal never holds more than one entry of code "A",
\* and capital keeps the value the opening gave it.
C4_AperturaUnica ==
    [][ /\ NumAperturas(data'.libro_diario) <= 1
        /\ data.apertura_realizada
             => /\ data'.capital = data.capital
                /\ data'.apertura_realizada
                /\ ultima'.op = "calcular_asiento_apertura"
                     => (ultima'.resultado # "ok" /\ data' = data) ]_vars

\* C4 witness: the opening was invoked again on an opened engine that has
\* later entries.
C4_Witness ==
    /\ data.apertura_realizada
    /\ Len(data.libro_diario) >= 2
    /\ ultima.op = "calcular_asiento_apertura"
    /\ ultima.resultado = "info"

\* The lines of a journal in journal order, each with the posting it stands
\* for: the replay of the journal, computed without the ledger.
RECURSIVE LineasDelDiario(_)
LineasDelDiario(libro) ==
    IF libro = <<>> THEN <<>>
    ELSE LET a == Head(libro)
         IN  [ i \in DOMAIN a.lines |->
                 [ cuenta |-> a.lines[i][1],
                   mov |-> [ fecha |-> a.fecha, descripcion |-> a.descripcion,
                             trans_code |-> a.code,
                             debe |-> a.lines[i][2], haber |-> a.lines[i][3] ] ] ]
             \o LineasDelDiario(Tail(libro))

\* The postings of one account according to the journal, and its balance.
MovimientosSegunDiario(libro, cuenta) ==
    LET propias == SelectSeq(LineasDelDiario(libro), LAMBDA x : x.cuenta = cuenta)
    IN  [ i \in DOMAIN propias |-> propias[i].mov ]
SaldoSegunDiario(libro, cuenta) ==
    LET movs == MovimientosSegunDiario(libro, cuenta)
    IN  Suma([i \in DOMAIN movs |-> movs[i].debe]) - Suma([i \in DOMAIN movs |-> movs[i].haber])
CuentasDelDiario(libro) ==
    LET ls == LineasDelDiario(libro) IN { ls[i].cuenta : i \in DOMAIN ls }

\* C5: the ledger is the replay of the journal: it has one account per name
\* the journal mentions, each holding the journal's lines for that name in
\* journal order, and the balance the ledger report gives for an account is
\* the balance recomputed from the journal.
C5_MayorEsReplay ==
    LET mayor == generar_tabla_mayor(data)
    IN  /\ { mayor[i].cuenta : i \in DOMAIN mayor } = CuentasDelDiario(data.libro_diario)
        /\ \A i, j \in DOMAIN mayor : mayor[i].cuenta = mayor[j].cuenta => i = j
        /\ \A i \in DOMAIN mayor :
             /\ mayor[i].movimientos
                  = MovimientosSegunDiario(data.libro_diario, mayor[i].cuenta)
             /\ mayor[i].saldo = SaldoSegunDiario(data.libro_diario, mayor[i].cuenta)

\* C5 witness: an account with postings from three entries, in a ledger of
\* at least four accounts.
C5_Witness ==
    /\ Len(data.ledger_accounts) >= 4
    /\ \E i \in DOMAIN data.ledger_accounts :
         /\ Len(data.ledger_accounts[i].movimientos) >= 3
         /\ FilaMayor(data.ledger_accounts[i]).saldo # 0

\* C6: once an operation has succeeded, the derived totals are the sums of
\* the balances and lists they are derived from.
C6_TotalesDerivados ==
    data.apertura_realizada
    => /\ data.total_circulante
            = data.caja + data.inventario + data.rentas_anticipadas
              + data.iva_acreditable + data.iva_por_acreditar
       /\ data.total_no_circulante = SumaPares(data.activos_no_circulantes)
       /\ data.total_activo = data.total_circulante + data.total_no_circulante
       /\ data.total_pasivo
            = data.acreedores + data.documentos_por_pagar
              + SumaPares(data.anticipo_clientes)

\* C6 witness: a state after a depreciation in which assets, both tax
\* buckets and liabilities are all positive.
C6_Witness ==
    /\ data.apertura_realizada
    /\ ultima.op = "registrar_depreciacion" /\ ultima.resultado = "ok"
    /\ data.iva_por_acreditar > 0 /\ data.iva_acreditable > 0
    /\ data.total_no_circulante > 0 /\ data.total_pasivo > 0

\* The last entry of a journal.
UltimoAsiento(libro) == libro[Len(libro)]

\* C7: on an opened engine, cost of goods sold with a cost above the
\* inventory fails and changes nothing; otherwise it takes exactly the cost
\* off the inventory and appends the entry (Costo de lo Vendido debit cost,
\* Inventario credit cost).
C7_CostoVendido ==
    [][ (data.apertura_realizada /\ ultima'.op = "registrar_costo_vendido")
        => IF ultima'.valor > data.inventario
           THEN ultima'.resultado = "error" /\ data' = data
           ELSE /\ ultima'.resultado = "ok"
                /\ data'.inventario = data.inventario - ultima'.valor
                /\ Len(data'.libro_diario) = Len(data.libro_diario) + 1
                /\ UltimoAsiento(data'.libro_diario).lines
                     = << <<"Costo de lo Vendido", ultima'.valor, 0>>,
                          <<"Inventario", 0, ultima'.valor>> >> ]_vars

\* C7 witness: after a cost of goods sold that succeeded with a positive
\* cost, another one is refused for lack of inventory.
C7_Witness ==
    /\ data.apertura_realizada
    /\ ultima.op = "registrar_costo_vendido" /\ ultima.resultado = "error"
    /\ ultima.valor > data.inventario
    /\ \E i \in DOMAIN data.libro_diario :
         /\ data.libro_diario[i].code = "CV"
         /\ data.libro_diario[i].lines[1][2] > 0

\* C8: an invocation of a mutating operation either fails and leaves the
\* engine as it was, or succeeds and appends exactly one entry at the end of
\* the journal; no step changes or removes an entry already in the journal.
C8_TodoONada ==
    [][ /\ SubSeq(data'.libro_diario, 1, Len(data.libro_diario)) = data.libro_diario
        /\ ultima'.op \in OperacionesMutantes
             => \/ ultima'.resultado # "ok" /\ data' = data
                \/ /\ ultima'.resultado = "ok"
                   /\ Len(data'.libro_diario) = Len(data.libro_diario) + 1 ]_vars

\* C8 witness: an operation succeeded on a journal that already had two
\* entries.
C8_Witness ==
    /\ ultima.op \in OperacionesNoApertura
    /\ ultima.resultado = "ok"
    /\ Len(data.libro_diario) = 3

\* C9: the opening with cash C and assets A leaves capital = total assets =
\* C + sum of A, total liabilities 0 and the engine opened, and its entry,
\* the only one of the journal, debits cash for C (a line the code writes
\* when C > 0), debits each asset of A for its value and credits the capital
\* account for C + sum of A.
C9_Apertura ==
    (ultima.op = "calcular_asiento_apertura" /\ ultima.resultado = "ok")
    => LET total == data.caja + SumaPares(data.activos_no_circulantes)
       IN  /\ data.apertura_realizada
           /\ data.capital = total
           /\ data.total_activo = total
           /\ data.total_pasivo = 0
           /\ Len(data.libro_diario) = 1
           /\ data.libro_diario[1].code = "A"
           /\ data.libro_diario[1].lines
                = (IF data.caja > 0 THEN << <<"Caja", data.caja, 0>> >> ELSE <<>>)
                  \o [ i \in DOMAIN data.activos_no_circulantes |->
                         << data.activos_no_circulantes[i][1],
                            data.activos_no_circulantes[i][2], 0 >> ]
                  \o << <<"Capital (Apertura)", 0, total>> >>

\* C9 witness: the opening has just been made with cash and an asset.
C9_Witness ==
    /\ ultima.op = "calcular_asiento_apertura" /\ ultima.resultado = "ok"
    /\ data.caja > 0
    /\ data.activos_no_circulantes # <<>>
    /\ data.capital > data.caja

\* C10: on an opened engine a cash purchase of value V at rate r posts the
\* tax V*r, takes exactly V*(1+r) off cash, adds V to the inventory and V*r
\* to the input-tax credit, and leaves the asset list, payables, notes
\* payable and the advance list as they were.
C10_CompraEnEfectivo ==
    [][ (data.apertura_realizada /\ ultima'.op = "compra_en_efectivo")
        => LET V == ultima'.valor
           IN  /\ ultima'.resultado = "ok"
               /\ 100 * (data.caja - data'.caja) = V * (100 + IvaRatePct)
               /\ data'.inventario - data.inventario = V
               /\ 100 * (data'.iva_acreditable - data.iva_acreditable) = V * IvaRatePct
               /\ 100 * UltimoAsiento(data'.libro_diario).lines[2][2] = V * IvaRatePct
               /\ UltimoAsiento(data'.libro_diario).lines[2][1] = "IVA Acreditable"
               /\ data'.activos_no_circulantes = data.activos_no_circulantes
               /\ data'.acreedores = data.acreedores
               /\ data'.documentos_por_pagar = data.documentos_por_pagar
               /\ data'.anticipo_clientes = data.anticipo_clientes ]_vars

\* C10 witness: a cash purchase of a positive value has succeeded.
C10_Witness ==
    /\ ultima.op = "compra_en_efectivo" /\ ultima.resultado = "ok"
    /\ ultima.valor > 0
    /\ data.inventario > 0

\* C11: on an opened engine a combined purchase of value V at rate r takes
\* V/2*(1+r) off cash, adds the same amount to notes payable, adds half of
\* the tax V*r to each input-tax bucket, and appends (name, V), with the
\* whole value, once to the non-current asset list.
C11_CompraCombinada ==
    [][ (data.apertura_realizada /\ ultima'.op = "compra_combinada")
        => LET V == ultima'.valor
           IN  /\ ultima'.resultado = "ok"
               /\ 200 * (data.caja - data'.caja) = V * (100 + IvaRatePct)
               /\ data'.documentos_por_pagar - data.documentos_por_pagar
                    = data.caja - data'.caja
               /\ 200 * (data'.iva_acreditable - data.iva_acreditable) = V * IvaRatePct
               /\ 200 * (data'.iva_por_acreditar - data.iva_por_acreditar) = V * IvaRatePct
               /\ data'.activos_no_circulantes
                    = Append(data.activos_no_circulantes, <<ultima'.nombre, V>>) ]_vars

\* C11 witness: a combined purchase of a positive value has succeeded.
C11_Witness ==
    /\ ultima.op = "compra_combinada" /\ ultima.resultado = "ok"
    /\ ultima.valor > 0
    /\ data.documentos_por_pagar > 0

\* The report operations of C12.
Reportes ==
    { "generar_libro_diario", "generar_tabla_mayor", "generar_balanza_comprobacion",
      "generar_tabla_balance", "generar_balance_general" }

\* C12: a report (journal, ledger, trial balance, balance sheet, income
\* summary) leaves the engine as it was, and the same report asked again
\* right after gives the same text.
C12_ReportesPuros ==
    [][ ultima'.op \in Reportes
        => /\ data' = data
           /\ ultima'.resultado = "ok"
           /\ reporte'.tipo = ultima'.op
           /\ (ultima.op = ultima'.op /\ ultima.resultado = "ok")
                => reporte' = reporte ]_vars

\* C12 witness: the trial balance was asked on an opened engine with two
\* entries.
C12_Witness ==
    /\ ultima.op = "generar_balanza_comprobacion" /\ ultima.resultado = "ok"
    /\ reporte.tipo = "generar_balanza_comprobacion"
    /\ Len(reporte.texto.filas) >= 3
    /\ Len(data.libro_diario) = 2

\* C13: the cash-flow statement completes and returns a report.  (Refuted:
\* every call raises AttributeError on self.calcular_utilidad().)
C13_FlujosDevuelveReporte ==
    ultima.op = "generar_estado_flujos_efectivo"
    => /\ ultima.resultado = "ok"
       /\ reporte.tipo = "generar_estado_flujos_efectivo"

\* C14: on an opened engine an advance reversal for M at rate r adds M + M*r
\* to cash, debits the generic account "Anticipo de Clientes" for M, credits
\* sales for M and output tax for M*r, and leaves the customer-advance list
\* and total liabilities as they were.
C14_AnularAnticipo ==
    [][ (data.apertura_realizada /\ ultima'.op = "anular_anticipo_cliente")
        => LET M == ultima'.valor
               lineas == UltimoAsiento(data'.libro_diario).lines
           IN  /\ ultima'.resultado = "ok"
               /\ 100 * (data'.caja - data.caja) = M * (100 + IvaRatePct)
               /\ Len(lineas) = 4
               /\ lineas[1] = <<"Caja", data'.caja - data.caja, 0>>
               /\ lineas[2] = <<"Anticipo de Clientes", M, 0>>
               /\ lineas[3][1] = "IVA Trasladado" /\ lineas[3][2] = 0
               /\ 100 * lineas[3][3] = M * IvaRatePct
               /\ lineas[4] = <<"Ventas", 0, M>>
               /\ data'.anticipo_clientes = data.anticipo_clientes
               /\ data'.total_pasivo = data.total_pasivo ]_vars

\* C14 witness: a reversal has succeeded on an engine that holds a recorded
\* advance.
C14_Witness ==
    /\ ultima.op = "anular_anticipo_cliente" /\ ultima.resultado = "ok"
    /\ ultima.valor > 0
    /\ Len(data.anticipo_clientes) = 2
    /\ data.total_pasivo > 0

\* C15: on an opened engine an operation other than the opening fails
\* exactly when it is a cost of goods sold above the inventory, and an
\* opened engine stays opened.
C15_UnicaFalla ==
    [][ data.apertura_realizada
        => /\ data'.apertura_realizada
           /\ ultima'.op \in OperacionesNoApertura
                => (ultima'.resultado = "ok"
                      <=> ~(ultima'.op = "registrar_costo_vendido"
                            /\ ultima'.valor > data.inventario)) ]_vars

\* C15 witness: a general expense has succeeded with less cash than its
\* amount.
C15_Witness ==
    /\ data.apertura_realizada
    /\ ultima.op = "registrar_gastos_generales" /\ ultima.resultado = "ok"
    /\ data.caja < 0

\* C16: in every row of the trial balance the two difference columns are
\* non-negative and at most one is nonzero: the debit difference is the
\* excess of total debit over total credit when there is one (and the
\* credit difference 0), otherwise the debit difference is 0 and the credit
\* difference is total credit minus total debit.
C16_DiferenciasExcluyentes ==
    LET filas == generar_balanza_comprobacion(data).filas
    IN  \A i \in DOMAIN filas :
          LET f == filas[i]
          IN  /\ f.diff_debe >= 0 /\ f.diff_haber >= 0
              /\ f.diff_debe = 0 \/ f.diff_haber = 0
              /\ f.total_debe > f.total_haber
                   => f.diff_debe = f.total_debe - f.total_haber /\ f.diff_haber = 0
              /\ ~(f.total_debe > f.total_haber)
                   => f.diff_debe = 0 /\ f.diff_haber = f.total_haber - f.total_debe

\* C16 witness: the trial balance has a row with a debit difference, a row
\* with a credit difference, and a row whose account was both debited and
\* credited.
C16_Witness ==
    LET filas == generar_balanza_comprobacion(data).filas
    IN  /\ \E i \in DOMAIN filas : filas[i].diff_debe > 0
        /\ \E i \in DOMAIN filas : filas[i].diff_haber > 0
        /\ \E i \in DOMAIN filas : filas[i].total_debe > 0 /\ filas[i].total_haber > 0

\* C17: on an opened engine a customer advance for a sale S at rate r adds
\* S/2 + (S/2)*r to cash, appends exactly two pairs to the customer-advance
\* list (principal S/2, then tax (S/2)*r), raises total liabilities by what
\* cash gained, and appends a 3-line entry: cash debit, advance credit,
\* output-tax credit.
C17_AnticipoClientes ==
    [][ (data.apertura_realizada /\ ultima'.op = "anticipo_clientes_op")
        => LET S == ultima'.valor
               n == Len(data.anticipo_clientes)
               nuevo == data'.anticipo_clientes
               lineas == UltimoAsiento(data'.libro_diario).lines
               entrada == data'.caja - data.caja
           IN  /\ ultima'.resultado = "ok"
               /\ 200 * entrada = S * (100 + IvaRatePct)
               /\ Len(nuevo) = n + 2
               /\ SubSeq(nuevo, 1, n) = data.anticipo_clientes
               /\ nuevo[n + 1][1] = "Anticipo de Clientes - " \o ultima'.nombre
               /\ 2 * nuevo[n + 1][2] = S
               /\ nuevo[n + 2][1] = "IVA Trasladado - " \o ultima'.nombre
               /\ 200 * nuevo[n + 2][2] = S * IvaRatePct
               /\ data'.total_pasivo - data.total_pasivo = entrada
               /\ Len(data'.libro_diario) = Len(data.libro_diario) + 1
               /\ lineas = << <<"Caja", entrada, 0>>,
                              <<nuevo[n + 1][1], 0, nuevo[n + 1][2]>>,
                              <<nuevo[n + 2][1], 0, nuevo[n + 2][2]>> >> ]_vars

\* C17 witness: a second customer advance has succeeded.
C17_Witness ==
    /\ ultima.op = "anticipo_clientes_op" /\ ultima.resultado = "ok"
    /\ ultima.valor > 0
    /\ Len(data.anticipo_clientes) = 4

\* C18: on an opened engine a credit purchase of value V at rate r appends
\* (name, V) to the non-current asset list, adds V*r to the tax pending
\* credit and V + V*r to payables, and leaves cash, inventory, the first
\* input-tax bucket and notes payable as they were.
C18_CompraACredito ==
    [][ (data.apertura_realizada /\ ultima'.op = "compra_a_credito")
        => LET V == ultima'.valor
           IN  /\ ultima'.resultado = "ok"
               /\ data'.activos_no_circulantes
                    = Append(data.activos_no_circulantes, <<ultima'.nombre, V>>)
               /\ 100 * (data'.iva_por_acreditar - data.iva_por_acreditar) = V * IvaRatePct
               /\ 100 * (data'.acreedores - data.acreedores) = V * (100 + IvaRatePct)
               /\ data'.caja = data.caja
               /\ data'.inventario = data.inventario
               /\ data'.iva_acreditable = data.iva_acreditable
               /\ data'.documentos_por_pagar = data.documentos_por_pagar ]_vars

\* C18 witness: a credit purchase of a positive value has succeeded.
C18_Witness ==
    /\ ultima.op = "compra_a_credito" /\ ultima.resultado = "ok"
    /\ ultima.valor > 0
    /\ data.acreedores > 0 /\ data.iva_por_acreditar > 0

\* C19: on an opened engine a sale of M at rate r adds M + M*r to cash,
\* appends a 3-line entry (cash debit M + M*r, sales credit M, output-tax
\* credit M*r), and leaves the inventory and every balance other than cash
\* as they were.
C19_Venta ==
    [][ (data.apertura_realizada /\ ultima'.op = "registrar_venta")
        => LET M == ultima'.valor
               lineas == UltimoAsiento(data'.libro_diario).lines
               entrada == data'.caja - data.caja
           IN  /\ ultima'.resultado = "ok"
               /\ 100 * entrada = M * (100 + IvaRatePct)
               /\ Len(data'.libro_diario) = Len(data.libro_diario) + 1
               /\ lineas = << <<"Caja", entrada, 0>>,
                              <<"Ventas", 0, M>>,
                              <<"IVA Trasladado", 0, entrada - M>> >>
               /\ data'.inventario = data.inventario
               /\ data'.iva_acreditable = data.iva_acreditable
               /\ data'.iva_por_acreditar = data.iva_por_acreditar
               /\ data'.rentas_anticipadas = data.rentas_anticipadas
               /\ data'.acreedores = data.acreedores
               /\ data'.documentos_por_pagar = data.documentos_por_pagar
               /\ data'.activos_no_circulantes = data.activos_no_circulantes
               /\ data'.anticipo_clientes = data.anticipo_clientes
               /\ data'.total_pasivo = data.total_pasivo ]_vars

\* C19 witness: a sale has succeeded on an engine that holds inventory.
C19_Witness ==
    /\ ultima.op = "registrar_venta" /\ ultima.resultado = "ok"
    /\ ultima.valor > 0
    /\ data.inventario > 0

\* C20: on an opened engine a depreciation with a mapping account -> amount
\* appends one entry whose first line debits "Gastos Generales" for the sum
\* of the amounts, followed by one credit line per mapped account for its
\* amount, and changes no balance, list or total.
C20_Depreciacion ==
    [][ (data.apertura_realizada /\ ultima'.op = "registrar_depreciacion")
        => LET deps == ultima'.deps
               lineas == UltimoAsiento(data'.libro_diario).lines
           IN  /\ ultima'.resultado = "ok"
               /\ Len(data'.libro_diario) = Len(data.libro_diario) + 1
               /\ Len(lineas) = Len(deps) + 1
               /\ lineas[1] = <<"Gastos Generales", SumaPares(deps), 0>>
               /\ \A i \in DOMAIN deps : lineas[i + 1] = <<deps[i][1], 0, deps[i][2]>>
               /\ [ data' EXCEPT !.libro_diario = data.libro_diario,
                                 !.ledger_accounts = data.ledger_accounts ] = data ]_vars

\* C20 witness: a depreciation of two accounts has succeeded.
C20_Witness ==
    /\ ultima.op = "registrar_depreciacion" /\ ultima.resultado = "ok"
    /\ Len(ultima.deps) = 2
    /\ Len(UltimoAsiento(data.libro_diario).lines) = 3

\* The account names of the journal's lines, in journal order.
RECURSIVE NombresDelDiario(_)
NombresDelDiario(libro) ==
    IF libro = <<>> THEN <<>>
    ELSE [ i \in DOMAIN Head(libro).lines |-> Head(libro).lines[i][1] ]
         \o NombresDelDiario(Tail(libro))

\* The names of a sequence without their later repetitions: each name stands
\* where it first occurs, so X precedes Y exactly when the first occurrence
\* of X comes before the first occurrence of Y.
RECURSIVE PrimerasApariciones(_, _)
PrimerasApariciones(nombres, vistas) ==
    IF nombres = <<>> THEN vistas
    ELSE PrimerasApariciones(
           Tail(nombres),
           IF \E k \in DOMAIN vistas : vistas[k] = Head(nombres)
           THEN vistas ELSE Append(vistas, Head(nombres)))

\* The account names of a report's rows, in the order of the report.
CuentasEnOrden(filas) == [ i \in DOMAIN filas |-> filas[i].cuenta ]

\* The list despues starts with the list antes.
ConservaPosiciones(antes, despues) ==
    /\ Len(despues) >= Len(antes)
    /\ SubSeq(despues, 1, Len(antes)) = antes

\* The accounts in the order in which the first n entries of the journal
\* first name them.
OrdenTrasAsientos(libro, n) ==
    PrimerasApariciones(NombresDelDiario(SubSeq(libro, 1, n)), <<>>)

\* C21: the ledger report and the trial balance list the accounts in
\* first-insertion order: X comes before Y exactly when the first journal
\* line naming X comes before the first journal line naming Y; and the
\* accounts listed after any earlier entry of the journal still stand at the
\* same positions, whatever was posted to them since.  (The quantifiers over
\* one-element sets name each report once.)
C21_OrdenDeInsercion ==
    \A mayor \in { generar_tabla_mayor(data) },
       balanza \in { generar_balanza_comprobacion(data).filas } :
      \A cuentas \in { CuentasEnOrden(mayor) } :
        /\ cuentas = OrdenTrasAsientos(data.libro_diario, Len(data.libro_diario))
        /\ CuentasEnOrden(balanza) = cuentas
        /\ \A n \in 0..Len(data.libro_diario) :
             ConservaPosiciones(OrdenTrasAsientos(data.libro_diario, n), cuentas)

\* C21 witness: in a ledger of at least four accounts the last entry posted
\* again to the first account, which has kept its place.
C21_Witness ==
    /\ Len(data.ledger_accounts) >= 4
    /\ Len(data.libro_diario) >= 2
    /\ Len(data.ledger_accounts[1].movimientos) >= 2
    /\ \E k \in DOMAIN UltimoAsiento(data.libro_diario).lines :
         UltimoAsiento(data.libro_diario).lines[k][1] = data.ledger_accounts[1].cuenta
    /\ generar_tabla_mayor(data)[1].cuenta = data.libro_diario[1].lines[1][1]

\* The total of the costs of the successful cost-of-goods-sold operations,
\* read from the journal: each left one entry of code "CV" whose first line
\* debits the cost.
RECURSIVE CostoSegunDiario(_)
CostoSegunDiario(libro) ==
    IF libro = <<>> THEN 0
    ELSE (IF Head(libro).code = "CV" THEN Head(libro).lines[1][2] ELSE 0)
         + CostoSegunDiario(Tail(libro))

\* C22: the income summary reports as cost of goods sold the total of the
\* costs of all successful cost-of-goods-sold operations, and the period
\* profit is sales less that cost less general expenses.  (Refuted: the
\* summary adds up the credits of "Costo de lo Vendido", which are zero.)
C22_CostoEnResumen ==
    LET resumen == generar_balance_general(data)
    IN  /\ resumen.total_costo = CostoSegunDiario(data.libro_diario)
        /\ resumen.utilidad_neta
             = resumen.total_ventas - CostoSegunDiario(data.libro_diario)
               - resumen.total_gastos

\* The journal holds one opening and otherwise only cash, credit and
\* combined purchases, prepaid rent, supplies purchases and customer
\* advances (codes 1 to 6).
SoloComprasYAnticipos(libro) ==
    /\ NumAperturas(libro) = 1
    /\ \A i \in DOMAIN libro : libro[i].code \in {"A", "1", "2", "3", "4", "5", "6"}

\* C23: after one opening followed only by cash, credit and combined
\* purchases, prepaid rent, supplies purchases and customer advances, the
\* balance sheet's total assets equal its total liabilities plus capital.
C23_ActivoIgualPasivoMasCapital ==
    (data.apertura_realizada /\ SoloComprasYAnticipos(data.libro_diario))
    => generar_tabla_balance(data).total_activo
         = generar_tabla_balance(data).pasivo_mas_capital

\* C23 witness: an opening and two such operations have left liabilities of
\* two kinds.
C23_Witness ==
    /\ data.apertura_realizada
    /\ SoloComprasYAnticipos(data.libro_diario)
    /\ Len(data.libro_diario) = 3
    /\ data.capital > 0
    /\ data.documentos_por_pagar > 0
    /\ data.anticipo_clientes # <<>>

\* The account names the operations themselves use for the control balances.
CuentasDeControl ==
    { "Caja", "Inventario", "Rentas Pagadas Anticipado", "IVA Acreditable",
      "IVA por Acreditar", "Acreedores", "Documentos por Pagar" }

\* No asset or purchase name given by the caller is the name of a control
\* account: the first line of the credit and combined purchases (codes 2 and
\* 3) and the asset lines of the opening carry the caller's name.
SinNombresDeControl(libro) ==
    \A i \in DOMAIN libro :
      /\ libro[i].code \in {"2", "3"} => libro[i].lines[1][1] \notin CuentasDeControl
      /\ libro[i].code = "A"
           => \A k \in DOMAIN libro[i].lines :
                (k > 1 /\ k < Len(libro[i].lines))
                  => libro[i].lines[k][1] \notin CuentasDeControl

\* Debits minus credits of an account of the ledger (0 without postings).
RECURSIVE SaldoDelMayor(_, _)
SaldoDelMayor(ledger, cuenta) ==
    IF ledger = <<>> THEN 0
    ELSE IF Head(ledger).cuenta = cuenta THEN FilaMayor(Head(ledger)).saldo
    ELSE SaldoDelMayor(Tail(ledger), cuenta)

\* C24: after one opening followed by operations in which no name given by
\* the caller is the name of a control account, each control balance is the
\* net balance of its ledger account: debits minus credits for cash,
\* inventory, prepaid rent and the two input-tax buckets, credits minus
\* debits for payables and notes payable.
C24_SaldosSegunMayor ==
    (data.apertura_realizada /\ NumAperturas(data.libro_diario) = 1
       /\ SinNombresDeControl(data.libro_diario))
    => /\ data.caja = SaldoDelMayor(data.ledger_accounts, "Caja")
       /\ data.inventario = SaldoDelMayor(data.ledger_accounts, "Inventario")
       /\ data.rentas_anticipadas
            = SaldoDelMayor(data.ledger_accounts, "Rentas Pagadas Anticipado")
       /\ data.iva_acreditable = SaldoDelMayor(data.ledger_accounts, "IVA Acreditable")
       /\ data.iva_por_acreditar = SaldoDelMayor(data.ledger_accounts, "IVA por Acreditar")
       /\ data.acreedores = 0 - SaldoDelMayor(data.ledger_accounts, "Acreedores")
       /\ data.documentos_por_pagar
            = 0 - SaldoDelMayor(data.ledger_accounts, "Documentos por Pagar")

\* C24 witness: an opening with cash and three operations with names of
\* their own have left rent, input tax and notes payable on the books.
C24_Witness ==
    /\ data.apertura_realizada /\ NumAperturas(data.libro_diario) = 1
    /\ SinNombresDeControl(data.libro_diario)
    /\ Len(data.libro_diario) = 3
    /\ data.libro_diario[1].lines[1][1] = "Caja"
    /\ data.rentas_anticipadas > 0
    /\ data.iva_por_acreditar > 0
    /\ data.documentos_por_pagar > 0

\* C25: the inventory balance is never negative.
C25_InventarioNoNegativo == data.inventario >= 0

\* C25 witness: a cost of goods sold equal to the whole inventory has
\* succeeded.
C25_Witness ==
    /\ ultima.op = "registrar_costo_vendido" /\ ultima.resultado = "ok"
    /\ ultima.valor > 0
    /\ data.inventario = 0
    /\ SaldoDelMayor(data.ledger_accounts, "Costo de lo Vendido") = ultima.valor

====
